---- MODULE Spec2Model ----
(***************************************************************************)
(* MindfulBreak: the break-scheduling core.                                *)
(*                                                                         *)
(*   TimerManager    src/timer_manager.py    the countdown engine          *)
(*   IdleMonitor     src/idle_monitor.py     the idle detector             *)
(*   MindfulBreakApp src/mindful_break_app.py the pause arbiter and glue   *)
(*   TrayIcon        src/tray_icon.py        menu sensitivity              *)
(*                                                                         *)
(* Everything runs on one GLib main loop: every handler below is one       *)
(* atomic step.  GObject signals are synchronous, so a handler connected   *)
(* to a signal runs inside the emitting method; the operators below are    *)
(* therefore functions from the whole program state (a record s) to the    *)
(* program state, composed in the order of the source's statements.        *)
(*                                                                         *)
(* Durations.  A `minutes` argument is a float in the source.  The model   *)
(* writes it as a whole number h of half seconds (minutes = h / 120), so   *)
(* that minutes * 60 = h / 2 and the rounding of .5 is modelled as Python  *)
(* computes it.  Durations are kept below MaxSeconds.                      *)
(***************************************************************************)
EXTENDS Integers, Sequences, FiniteSets, TLC

VARIABLES timer_manager, idle_monitor, app, tray_icon, glib,
          settings_manager, obs

vars == <<timer_manager, idle_monitor, app, tray_icon, glib,
          settings_manager, obs>>

(***************************************************************************)
(* Bounds of the model.                                                    *)
(***************************************************************************)
MaxSeconds == 3

MaxDuration == 2

MaxDialogs == 2

MaxSources == 2

\* the counters of the run's record stop counting here
MaxCount == 2

(***************************************************************************)
(* Program constants.                                                      *)
(***************************************************************************)
STATE_STOPPED == 0

STATE_RUNNING == 1

STATE_PAUSED == 2

STATE_BREAK_ACTIVE == 3

\* a stored GLib source id is None or the id of a source that is still
\* scheduled ("live")
None == "None"

\* the argument of a signal that carries none
NoArg == -1

Event(sig, arg) == [sig |-> sig, arg |-> arg]

(***************************************************************************)
(* The program state as one record.                                        *)
(***************************************************************************)
Cur ==
  [tm |-> timer_manager, im |-> idle_monitor, app |-> app,
   tray |-> tray_icon, glib |-> glib, settings |-> settings_manager,
   obs |-> obs]

\* print(...): the diagnostic line a public method writes on entry
log_call(s, name) ==
  [s EXCEPT !.obs.calls = Append(@, name)]

\* a call with a `minutes` argument
log_call_minutes(s, name, minutes) ==
  [log_call(s, name) EXCEPT !.obs.args = Append(@, minutes)]

\* GLib.source_remove(id) for a source of the given kind
source_remove(s, kind, id) ==
  IF id = "live" THEN [s EXCEPT !.glib[kind] = @ - 1] ELSE s

\* GLib.timeout_add_seconds(...) / GLib.idle_add(...)
source_add(s, kind) ==
  [s EXCEPT !.glib[kind] = @ + 1]

\* the firing callback returned False: GLib drops the source that fired
source_done(s, kind) ==
  [s EXCEPT !.glib[kind] = @ - 1]

(***************************************************************************)
(* TrayIcon.update_status: the status decides which menu items can be      *)
(* activated.                                                              *)
(***************************************************************************)
TRAY_RUNNING == "RUNNING"

TRAY_PAUSED == "PAUSED"

TRAY_IDLE == "IDLE"

TRAY_BREAK == "BREAK_ACTIVE"

TRAY_STOPPED == "STOPPED"

TRAY_MANUAL_PAUSE == "MANUAL_PAUSE"

update_status(s, state) ==
  [s EXCEPT !.tray = state]

\* _current_dynamic_action, set by update_status
dynamic_action(state) ==
  CASE state = TRAY_RUNNING -> "none"
    [] state \in {TRAY_PAUSED, TRAY_IDLE, TRAY_MANUAL_PAUSE} -> "resume"
    [] OTHER -> "start"

\* item_pause_for / item_set_time sensitivity, set by update_status
pause_for_sensitive(state) == state = TRAY_RUNNING

set_time_sensitive(state) == state = TRAY_RUNNING

(***************************************************************************)
(* MindfulBreakApp: the handlers of the TimerManager's signals.            *)
(***************************************************************************)
on_timer_tick(s, remaining_seconds) ==
  IF s.tm.state = STATE_RUNNING
  THEN update_status(s, TRAY_RUNNING)
  ELSE s

\* playsound(sound, block): a blocking call returns when the playback has
\* finished, a non-blocking call while the sound is playing
playsound(s, block) ==
  [s EXCEPT !.obs.playback = IF block THEN "finished" ELSE "playing"]

\* SoundPlayer.play_break_sound, the sound file being in place
play_break_sound(s) ==
  playsound([s EXCEPT !.obs.sounds = @ + 1], TRUE)

\* on_break_started that shows the break without asking for the sound
on_break_started_without_sound(s) ==
  [update_status(s, TRAY_BREAK) EXCEPT !.app.break_overlay_window = TRUE]

on_break_started(s) ==
  LET s1 == play_break_sound(s)
      s2 == update_status(s1, TRAY_BREAK)
  IN  [s2 EXCEPT !.app.break_overlay_window = TRUE]

on_timer_paused(s) ==
  IF s.app.manual_pause_timer_id # None
  THEN s
  ELSE IF s.app.paused_due_to_idle
       THEN update_status(s, TRAY_IDLE)
       ELSE update_status(s, TRAY_PAUSED)

cancel_manual_pause(s) ==
  IF s.app.manual_pause_timer_id # None
  THEN LET s1 == source_remove(s, "manual", s.app.manual_pause_timer_id)
           s2 == [s1 EXCEPT !.app.manual_pause_timer_id = None,
                            !.app.manual_pause_remaining_seconds = 0]
       IN  IF s2.tm.state = STATE_PAUSED THEN on_timer_paused(s2) ELSE s2
  ELSE s

\* on_timer_resumed that leaves the idle flag as it is
on_timer_resumed_keeping_idle_flag(s) ==
  update_status(cancel_manual_pause(s), TRAY_RUNNING)

on_timer_resumed(s) ==
  LET s1 == cancel_manual_pause(s)
      s2 == [s1 EXCEPT !.app.paused_due_to_idle = FALSE]
  IN  update_status(s2, TRAY_RUNNING)

on_timer_stopped(s) ==
  LET s1 == cancel_manual_pause(s)
      s2 == [s1 EXCEPT !.app.paused_due_to_idle = FALSE]
  IN  update_status(s2, TRAY_STOPPED)

\* on_timer_started that leaves a manual pause countdown running
on_timer_started_keeping_manual_pause(s) ==
  LET s2 == [s EXCEPT !.app.paused_due_to_idle = FALSE]
  IN  update_status(s2, TRAY_RUNNING)

on_timer_started(s) ==
  LET s1 == cancel_manual_pause(s)
      s2 == [s1 EXCEPT !.app.paused_due_to_idle = FALSE]
  IN  update_status(s2, TRAY_RUNNING)

(***************************************************************************)
(* TimerManager.                                                           *)
(***************************************************************************)
\* self.emit(signal, ...): records the emission and runs the connected
\* handler (MindfulBreakApp._connect_signals) before returning
emit(s, sig, arg) ==
  LET s1 == [s EXCEPT !.obs.events = Append(@, Event(sig, arg))]
  IN  IF ~s1.app.connected THEN s1
      ELSE CASE sig = "timer_tick" -> on_timer_tick(s1, arg)
             [] sig = "break_started" -> on_break_started(s1)
             [] sig = "timer_paused" -> on_timer_paused(s1)
             [] sig = "timer_resumed" -> on_timer_resumed(s1)
             [] sig = "timer_stopped" -> on_timer_stopped(s1)
             [] sig = "timer_started" -> on_timer_started(s1)
             [] OTHER -> s1

\* int(round(minutes * 60)) with minutes = h / 120: h / 2 rounded to the
\* nearest integer, a tie going to the even neighbour (Python 3 round)
round_seconds(h) ==
  IF h % 2 = 0 THEN h \div 2
  ELSE LET f == (h - 1) \div 2
       IN  IF f % 2 = 0 THEN f ELSE f + 1

stop_internal_timer(s) ==
  IF s.tm.timer_source_id # None
  THEN [source_remove(s, "tick", s.tm.timer_source_id)
          EXCEPT !.tm.timer_source_id = None]
  ELSE s

\* set_interval() that primes remaining_seconds in every state
set_interval_priming_always(s, minutes) ==
  LET rounded == round_seconds(minutes)
      interval_seconds == IF rounded < 1 THEN 1 ELSE rounded
  IN  [log_call_minutes(s, "set_interval", minutes)
         EXCEPT !.tm.configured_interval_seconds = interval_seconds,
                !.tm.remaining_seconds = interval_seconds]

set_interval(s, minutes) ==
  LET rounded == round_seconds(minutes)
      interval_seconds == IF rounded < 1 THEN 1 ELSE rounded
      s1 == [log_call_minutes(s, "set_interval", minutes)
               EXCEPT !.tm.configured_interval_seconds = interval_seconds]
  IN  IF s1.tm.state = STATE_STOPPED
      THEN [s1 EXCEPT !.tm.remaining_seconds = interval_seconds]
      ELSE s1

\* start() that leaves the armed tick in place
start_keeping_timer(s) ==
  LET s1 == log_call(s, "start")
  IN  IF s1.tm.configured_interval_seconds <= 0
      THEN s1
      ELSE LET s2 == [s1 EXCEPT !.tm.state = STATE_RUNNING,
                        !.tm.remaining_seconds =
                            s1.tm.configured_interval_seconds]
               s3 == [source_add(s2, "tick")
                        EXCEPT !.tm.timer_source_id = "live"]
               s4 == emit(s3, "timer_started", NoArg)
           IN  emit(s4, "timer_tick", s4.tm.remaining_seconds)

\* start() that begins a countdown whatever the configured interval
start_without_interval_check(s) ==
  LET s0 == log_call(s, "start")
      s1 == stop_internal_timer(s0)
      s2 == [s1 EXCEPT !.tm.state = STATE_RUNNING,
               !.tm.remaining_seconds = s1.tm.configured_interval_seconds]
      s3 == [source_add(s2, "tick") EXCEPT !.tm.timer_source_id = "live"]
      s4 == emit(s3, "timer_started", NoArg)
  IN  emit(s4, "timer_tick", s4.tm.remaining_seconds)

start(s) ==
  LET s0 == log_call(s, "start")
      s1 == stop_internal_timer(s0)
  IN  IF s1.tm.configured_interval_seconds <= 0
      THEN s1
      ELSE LET s2 == [s1 EXCEPT !.tm.state = STATE_RUNNING,
                        !.tm.remaining_seconds =
                            s1.tm.configured_interval_seconds]
               s3 == [source_add(s2, "tick")
                        EXCEPT !.tm.timer_source_id = "live"]
               s4 == emit(s3, "timer_started", NoArg)
           IN  emit(s4, "timer_tick", s4.tm.remaining_seconds)

\* pause() without the check of the state
pause_unguarded(s) ==
  LET s0 == log_call(s, "pause")
      s1 == [s0 EXCEPT !.tm.state = STATE_PAUSED]
      s2 == stop_internal_timer(s1)
  IN  emit(s2, "timer_paused", NoArg)

pause(s) ==
  LET s0 == log_call(s, "pause")
  IN  IF s0.tm.state = STATE_RUNNING
      THEN LET s1 == [s0 EXCEPT !.tm.state = STATE_PAUSED]
               s2 == stop_internal_timer(s1)
           IN  emit(s2, "timer_paused", NoArg)
      ELSE s0

enter_break_state(s) ==
  LET s1 == [s EXCEPT !.tm.state = STATE_BREAK_ACTIVE,
                      !.tm.remaining_seconds = 0,
                      !.tm.timer_source_id = None]
  IN  emit(s1, "break_started", NoArg)

\* resume() that restarts the countdown from the configured interval
resume_from_interval(s) ==
  LET s0 == log_call(s, "resume")
  IN  IF s0.tm.state = STATE_PAUSED
      THEN LET s1 == [s0 EXCEPT !.tm.state = STATE_RUNNING,
                        !.tm.remaining_seconds =
                            s0.tm.configured_interval_seconds]
           IN  IF s1.tm.remaining_seconds > 0
               THEN LET s2 == [source_add(s1, "tick")
                                 EXCEPT !.tm.timer_source_id = "live"]
                        s3 == emit(s2, "timer_resumed", NoArg)
                    IN  emit(s3, "timer_tick", s3.tm.remaining_seconds)
               ELSE enter_break_state(s1)
      ELSE s0

\* resume() without the immediate timer_tick
resume_without_tick(s) ==
  LET s0 == log_call(s, "resume")
  IN  IF s0.tm.state = STATE_PAUSED
      THEN LET s1 == [s0 EXCEPT !.tm.state = STATE_RUNNING]
           IN  IF s1.tm.remaining_seconds > 0
               THEN LET s2 == [source_add(s1, "tick")
                                 EXCEPT !.tm.timer_source_id = "live"]
                    IN  emit(s2, "timer_resumed", NoArg)
               ELSE enter_break_state(s1)
      ELSE s0

resume(s) ==
  LET s0 == log_call(s, "resume")
  IN  IF s0.tm.state = STATE_PAUSED
      THEN LET s1 == [s0 EXCEPT !.tm.state = STATE_RUNNING]
           IN  IF s1.tm.remaining_seconds > 0
               THEN LET s2 == [source_add(s1, "tick")
                                 EXCEPT !.tm.timer_source_id = "live"]
                        s3 == emit(s2, "timer_resumed", NoArg)
                    IN  emit(s3, "timer_tick", s3.tm.remaining_seconds)
               ELSE enter_break_state(s1)
      ELSE s0

\* stop() that emits timer_stopped whatever the previous state
stop_always_emitting(s) ==
  LET s0 == log_call(s, "stop")
      s1 == stop_internal_timer(s0)
      s2 == [s1 EXCEPT !.tm.state = STATE_STOPPED,
                       !.tm.remaining_seconds =
                           s1.tm.configured_interval_seconds]
  IN  emit(s2, "timer_stopped", NoArg)

stop(s) ==
  LET s0 == log_call(s, "stop")
      previous_state == s0.tm.state
      s1 == stop_internal_timer(s0)
      s2 == [s1 EXCEPT !.tm.state = STATE_STOPPED,
                       !.tm.remaining_seconds =
                           s1.tm.configured_interval_seconds]
  IN  IF previous_state # STATE_STOPPED
      THEN emit(s2, "timer_stopped", NoArg)
      ELSE s2

\* postpone() that leaves the armed tick in place
postpone_keeping_timer(s, minutes) ==
  LET s0 == log_call_minutes(s, "postpone", minutes)
      rounded == round_seconds(minutes)
      postpone_seconds == IF rounded < 1 THEN 1 ELSE rounded
      s2 == [s0 EXCEPT !.tm.state = STATE_RUNNING,
                       !.tm.remaining_seconds = postpone_seconds]
      s3 == [source_add(s2, "tick") EXCEPT !.tm.timer_source_id = "live"]
      s4 == emit(s3, "timer_started", NoArg)
  IN  emit(s4, "timer_tick", s4.tm.remaining_seconds)

\* postpone() that takes the rounded duration as it is
postpone_unclamped(s, minutes) ==
  LET s0 == log_call_minutes(s, "postpone", minutes)
      s1 == stop_internal_timer(s0)
      s2 == [s1 EXCEPT !.tm.state = STATE_RUNNING,
                       !.tm.remaining_seconds = round_seconds(minutes)]
      s3 == [source_add(s2, "tick") EXCEPT !.tm.timer_source_id = "live"]
      s4 == emit(s3, "timer_started", NoArg)
  IN  emit(s4, "timer_tick", s4.tm.remaining_seconds)

postpone(s, minutes) ==
  LET s0 == log_call_minutes(s, "postpone", minutes)
      s1 == stop_internal_timer(s0)
      rounded == round_seconds(minutes)
      postpone_seconds == IF rounded < 1 THEN 1 ELSE rounded
      s2 == [s1 EXCEPT !.tm.state = STATE_RUNNING,
                       !.tm.remaining_seconds = postpone_seconds]
      s3 == [source_add(s2, "tick") EXCEPT !.tm.timer_source_id = "live"]
      s4 == emit(s3, "timer_started", NoArg)
  IN  emit(s4, "timer_tick", s4.tm.remaining_seconds)

\* _tick that enters the break one firing late (>= 0 for > 0)
tick_one_late(s) ==
  IF s.tm.state # STATE_RUNNING
  THEN source_done([s EXCEPT !.tm.timer_source_id = None], "tick")
  ELSE LET s1 == [s EXCEPT !.tm.remaining_seconds = @ - 1]
       IN  IF s1.tm.remaining_seconds >= 0
           THEN emit(s1, "timer_tick", s1.tm.remaining_seconds)
           ELSE source_done(enter_break_state(s1), "tick")

\* _tick that keeps its source scheduled when the break is reached
tick_rearmed_at_break(s) ==
  IF s.tm.state # STATE_RUNNING
  THEN source_done([s EXCEPT !.tm.timer_source_id = None], "tick")
  ELSE LET s1 == [s EXCEPT !.tm.remaining_seconds = @ - 1]
       IN  IF s1.tm.remaining_seconds > 0
           THEN emit(s1, "timer_tick", s1.tm.remaining_seconds)
           ELSE [enter_break_state(s1)
                   EXCEPT !.tm.timer_source_id = s.tm.timer_source_id]

\* _tick, the callback of the 1-second source; when it returns False the
\* source that fired is dropped by GLib
tick(s) ==
  IF s.tm.state # STATE_RUNNING
  THEN source_done([s EXCEPT !.tm.timer_source_id = None], "tick")
  ELSE LET s1 == [s EXCEPT !.tm.remaining_seconds = @ - 1]
       IN  IF s1.tm.remaining_seconds > 0
           THEN emit(s1, "timer_tick", s1.tm.remaining_seconds)
           ELSE source_done(enter_break_state(s1), "tick")

(***************************************************************************)
(* MindfulBreakApp: the handlers of the IdleMonitor's signals.             *)
(***************************************************************************)
\* on_user_idle that records the idle cause before looking at the engine
on_user_idle_flag_first(s) ==
  IF s.app.manual_pause_timer_id # None
  THEN s
  ELSE LET s1 == [s EXCEPT !.app.paused_due_to_idle = TRUE]
       IN  IF s1.tm.state = STATE_RUNNING THEN pause(s1) ELSE s1

on_user_idle(s) ==
  IF s.app.manual_pause_timer_id # None
  THEN s
  ELSE IF s.tm.state = STATE_RUNNING
       THEN pause([s EXCEPT !.app.paused_due_to_idle = TRUE])
       ELSE s

\* on_user_active that resumes a Paused engine whatever paused it
on_user_active_any_pause(s) ==
  IF s.tm.state = STATE_PAUSED
  THEN resume(s)
  ELSE [s EXCEPT !.app.paused_due_to_idle = FALSE]

on_user_active(s) ==
  IF s.app.manual_pause_timer_id # None
  THEN [s EXCEPT !.app.paused_due_to_idle = FALSE]
  ELSE IF s.tm.state = STATE_PAUSED /\ s.app.paused_due_to_idle
       THEN resume(s)
       ELSE IF s.app.paused_due_to_idle
            THEN [s EXCEPT !.app.paused_due_to_idle = FALSE]
            ELSE s

(***************************************************************************)
(* IdleMonitor.                                                            *)
(***************************************************************************)
\* the outcome of one XScreenSaverQueryInfo call
QueryOk(idle_ms) == [kind |-> "ok", idle |-> idle_ms]

QueryStatus0 == [kind |-> "status0", idle |-> 0]

QueryException == [kind |-> "exception", idle |-> 0]

NoQuery == [kind |-> "none", idle |-> 0]

\* IdleMonitor.emit: user_idle and user_active are connected to the app's
\* handlers when the monitor is created
emit_monitor(s, sig) ==
  LET s1 == [s EXCEPT !.obs.events = Append(@, Event(sig, NoArg)),
                      !.obs.lastEmitted = sig]
  IN  IF ~s1.app.connected THEN s1
      ELSE CASE sig = "user_idle" -> on_user_idle(s1)
             [] sig = "user_active" -> on_user_active(s1)
             [] OTHER -> s1

NoMonitor ==
  [is_idle |-> FALSE, idle_threshold_ms |-> 0,
   initialized_successfully |-> FALSE, timer_source_id |-> None]

\* IdleMonitor.__init__; x_ok: the X display and the screen saver
\* extension could be opened
IdleMonitor_init(s, idle_threshold_seconds, x_ok) ==
  LET threshold == IF idle_threshold_seconds < 1
                   THEN 1 ELSE idle_threshold_seconds
  IN  [s EXCEPT !.im = [is_idle |-> FALSE,
                        idle_threshold_ms |-> threshold * 1000,
                        initialized_successfully |-> x_ok,
                        timer_source_id |-> None],
                !.obs.lastEmitted = "none"]

\* start() without the check for a poll that is already running
idle_monitor_start_again(s) ==
  IF ~s.im.initialized_successfully THEN s
  ELSE LET s1 == source_add(s, "idle")
       IN  [source_add(s1, "poll") EXCEPT !.im.timer_source_id = "live"]

idle_monitor_start(s) ==
  IF ~s.im.initialized_successfully THEN s
  ELSE IF s.im.timer_source_id # None THEN s
  ELSE LET s1 == source_add(s, "idle")
       IN  [source_add(s1, "poll") EXCEPT !.im.timer_source_id = "live"]

\* stop() that forgets the recurring poll's id without removing the source
idle_monitor_stop_keeping_poll(s) ==
  [s EXCEPT !.im.timer_source_id = None,
            !.im.initialized_successfully = FALSE]

idle_monitor_stop(s) ==
  LET s1 == IF s.im.timer_source_id # None
            THEN [source_remove(s, "poll", s.im.timer_source_id)
                    EXCEPT !.im.timer_source_id = None]
            ELSE s
  IN  [s1 EXCEPT !.im.initialized_successfully = FALSE]

\* _check_idle that takes the user for idle only above the threshold
check_idle_strictly_above(s, src, result) ==
  IF src = "old_idle" \/ ~s.im.initialized_successfully
  THEN source_done(s, src)
  ELSE IF result.kind = "status0" THEN s
       ELSE LET currently_considered_idle ==
                  result.idle > s.im.idle_threshold_ms
                s1 == IF result.kind = "exception" THEN s
                      ELSE IF currently_considered_idle /\ ~s.im.is_idle
                      THEN emit_monitor([s EXCEPT !.im.is_idle = TRUE],
                                        "user_idle")
                      ELSE IF ~currently_considered_idle /\ s.im.is_idle
                      THEN emit_monitor([s EXCEPT !.im.is_idle = FALSE],
                                        "user_active")
                      ELSE s
            IN  IF s1.im.timer_source_id # None
                THEN s1
                ELSE source_done(s1, src)

\* _check_idle that gives up polling when the query fails
check_idle_stopping_on_error(s, src, result) ==
  IF src = "old_idle" \/ ~s.im.initialized_successfully
  THEN source_done(s, src)
  ELSE IF result.kind \in {"status0", "exception"}
       THEN source_done(s, src)
       ELSE LET currently_considered_idle ==
                  result.idle >= s.im.idle_threshold_ms
                s1 == IF currently_considered_idle /\ ~s.im.is_idle
                      THEN emit_monitor([s EXCEPT !.im.is_idle = TRUE],
                                        "user_idle")
                      ELSE IF ~currently_considered_idle /\ s.im.is_idle
                      THEN emit_monitor([s EXCEPT !.im.is_idle = FALSE],
                                        "user_active")
                      ELSE s
            IN  IF s1.im.timer_source_id # None
                THEN s1
                ELSE source_done(s1, src)

\* _check_idle, run by the source src: the monitor's recurring "poll", its
\* "idle" callback, or the idle callback of a monitor that was stopped
\* ("old_idle"); result is what the platform query answers
check_idle(s, src, result) ==
  IF src = "old_idle" \/ ~s.im.initialized_successfully
  THEN source_done(s, src)
  ELSE IF result.kind = "status0" THEN s
       ELSE LET currently_considered_idle ==
                  result.idle >= s.im.idle_threshold_ms
                s1 == IF result.kind = "exception" THEN s
                      ELSE IF currently_considered_idle /\ ~s.im.is_idle
                      THEN emit_monitor([s EXCEPT !.im.is_idle = TRUE],
                                        "user_idle")
                      ELSE IF ~currently_considered_idle /\ s.im.is_idle
                      THEN emit_monitor([s EXCEPT !.im.is_idle = FALSE],
                                        "user_active")
                      ELSE s
            IN  IF s1.im.timer_source_id # None
                THEN s1
                ELSE source_done(s1, src)

(***************************************************************************)
(* MindfulBreakApp: tray menu, dialog, overlay and settings handlers.      *)
(***************************************************************************)
on_start_timer_requested(s) ==
  start(set_interval(s, s.settings.break_interval))

on_resume_timer_requested(s) ==
  LET s1 == cancel_manual_pause(s)
      s2 == [s1 EXCEPT !.app.paused_due_to_idle = FALSE]
  IN  IF s2.tm.state = STATE_PAUSED THEN resume(s2) ELSE s2

on_pause_for_requested(s) ==
  IF s.app.manual_pause_timer_id # None
  THEN s
  ELSE [s EXCEPT !.app.pause_dialogs = @ + 1]

on_set_time_requested(s) ==
  [s EXCEPT !.app.set_time_dialogs = @ + 1]

\* response_ok: the dialog answered Gtk.ResponseType.OK; duration_seconds:
\* dialog.get_duration_seconds().  The dialog is destroyed on every path.
on_set_time_dialog_response(s, response_ok, duration_seconds) ==
  LET s1 == [s EXCEPT !.app.set_time_dialogs = @ - 1]
  IN  IF ~response_ok \/ duration_seconds <= 0
      THEN s1
      \* duration_minutes = duration_seconds / 60.0, in half seconds
      ELSE postpone(s1, 2 * duration_seconds)

\* on_pause_dialog_response that calls pause() whatever the engine's state
on_pause_dialog_response_pausing_always(s, response_ok, duration_seconds) ==
  LET s1 == [s EXCEPT !.app.pause_dialogs = @ - 1]
  IN  IF ~response_ok \/ duration_seconds <= 0
      THEN s1
      ELSE LET s2 == [s1 EXCEPT !.app.paused_due_to_idle = FALSE]
               s3 == pause(s2)
               s4 == [source_add(s3, "manual")
                        EXCEPT !.app.manual_pause_remaining_seconds =
                                   duration_seconds,
                               !.app.manual_pause_timer_id = "live"]
           IN  update_status(s4, TRAY_MANUAL_PAUSE)

\* on_pause_dialog_response that leaves _paused_due_to_idle as it is
on_pause_dialog_response_keeping_idle(s, response_ok, duration_seconds) ==
  LET s1 == [s EXCEPT !.app.pause_dialogs = @ - 1]
  IN  IF ~response_ok \/ duration_seconds <= 0
      THEN s1
      ELSE LET s3 == IF s1.tm.state = STATE_RUNNING THEN pause(s1) ELSE s1
               s4 == [source_add(s3, "manual")
                        EXCEPT !.app.manual_pause_remaining_seconds =
                                   duration_seconds,
                               !.app.manual_pause_timer_id = "live"]
           IN  update_status(s4, TRAY_MANUAL_PAUSE)

on_pause_dialog_response(s, response_ok, duration_seconds) ==
  LET s1 == [s EXCEPT !.app.pause_dialogs = @ - 1]
  IN  IF ~response_ok \/ duration_seconds <= 0
      THEN s1
      ELSE LET s2 == [s1 EXCEPT !.app.paused_due_to_idle = FALSE]
               s3 == IF s2.tm.state = STATE_RUNNING THEN pause(s2) ELSE s2
               s4 == [source_add(s3, "manual")
                        EXCEPT !.app.manual_pause_remaining_seconds =
                                   duration_seconds,
                               !.app.manual_pause_timer_id = "live"]
           IN  update_status(s4, TRAY_MANUAL_PAUSE)

on_overlay_postponed(s, minutes) ==
  postpone(s, minutes)

\* BreakOverlayWindow._on_postpone_clicked: the signal first, then the
\* window goes away
on_postpone_clicked(s, minutes) ==
  LET s1 == on_overlay_postponed(s, minutes)
  IN  [s1 EXCEPT !.app.break_overlay_window = FALSE]

\* _manual_pause_tick that calls resume() without looking at the engine
manual_pause_tick_resuming_always(s, fired_ref) ==
  IF s.app.manual_pause_remaining_seconds <= 0
  THEN LET s1 == cancel_manual_pause(s)
           s2 == resume(s1)
       IN  IF fired_ref THEN s2 ELSE source_done(s2, "manual")
  ELSE LET s1 == [s EXCEPT !.app.manual_pause_remaining_seconds = @ - 1]
           s2 == update_status(s1, TRAY_MANUAL_PAUSE)
       IN  IF s2.app.manual_pause_remaining_seconds <= 0
           THEN LET s3 == [s2 EXCEPT !.app.manual_pause_timer_id = None]
                    s4 == resume(s3)
                IN  source_done(s4, "manual")
           ELSE s2

\* _manual_pause_tick that resumes at expiry with its own id still stored
manual_pause_tick_keeping_id(s, fired_ref) ==
  IF s.app.manual_pause_remaining_seconds <= 0
  THEN LET s1 == cancel_manual_pause(s)
           s2 == IF s1.tm.state = STATE_PAUSED THEN resume(s1) ELSE s1
       IN  IF fired_ref THEN s2 ELSE source_done(s2, "manual")
  ELSE LET s1 == [s EXCEPT !.app.manual_pause_remaining_seconds = @ - 1]
           s2 == update_status(s1, TRAY_MANUAL_PAUSE)
       IN  IF s2.app.manual_pause_remaining_seconds <= 0
           THEN LET s4 == IF s2.tm.state = STATE_PAUSED
                          THEN resume(s2) ELSE s2
                IN  source_done(s4, "manual")
           ELSE s2

\* _manual_pause_tick, the callback of the manual pause's 1-second source;
\* fired_ref: the source that fired is the one _manual_pause_timer_id names
manual_pause_tick(s, fired_ref) ==
  IF s.app.manual_pause_remaining_seconds <= 0
  THEN LET s1 == cancel_manual_pause(s)
           s2 == IF s1.tm.state = STATE_PAUSED THEN resume(s1) ELSE s1
       IN  IF fired_ref THEN s2 ELSE source_done(s2, "manual")
  ELSE LET s1 == [s EXCEPT !.app.manual_pause_remaining_seconds = @ - 1]
           s2 == update_status(s1, TRAY_MANUAL_PAUSE)
       IN  IF s2.app.manual_pause_remaining_seconds <= 0
           THEN LET s3 == [s2 EXCEPT !.app.manual_pause_timer_id = None]
                    s4 == IF s3.tm.state = STATE_PAUSED
                          THEN resume(s3) ELSE s3
                IN  source_done(s4, "manual")
           ELSE s2

\* the floor SettingsManager.get_idle_threshold_seconds puts under the
\* stored threshold
MIN_IDLE_THRESHOLD == 10

\* SettingsManager.get_idle_threshold_seconds: max(10, value)
get_idle_threshold_seconds(s) ==
  IF s.settings.idle_threshold < MIN_IDLE_THRESHOLD
  THEN MIN_IDLE_THRESHOLD ELSE s.settings.idle_threshold

\* self.idle_monitor = None: a source the dropped monitor still has
\* scheduled keeps the object alive until it fires
drop_idle_monitor(s) ==
  [s EXCEPT !.app.idle_monitor = FALSE,
            !.im = NoMonitor,
            !.obs.lastEmitted = "none",
            !.glib.old_idle = @ + s.glib.idle,
            !.glib.idle = 0]

update_idle_monitor_state(s, x_ok) ==
  LET new_enabled_state == s.settings.idle_enabled
      \* SettingsManager.get_idle_threshold_seconds: max(10, value)
      new_threshold == get_idle_threshold_seconds(s)
      needs_restart ==
        \/ s.app.idle_monitor_enabled # new_enabled_state
        \/ (new_enabled_state /\ s.app.idle_threshold_seconds # new_threshold)
      keep == s.app.idle_monitor /\ ~(needs_restart \/ ~new_enabled_state)
      s1 == IF s.app.idle_monitor
            THEN drop_idle_monitor(idle_monitor_stop(s))
            ELSE s
      s2 == [s1 EXCEPT !.app.idle_monitor_enabled = new_enabled_state,
                       !.app.idle_threshold_seconds = new_threshold]
  IN  IF keep THEN s
      ELSE IF s2.app.idle_monitor_enabled
      THEN LET s3 == IdleMonitor_init(s2, s2.app.idle_threshold_seconds, x_ok)
           IN  IF s3.im.initialized_successfully
               THEN idle_monitor_start([s3 EXCEPT !.app.idle_monitor = TRUE])
               ELSE [s3 EXCEPT !.im = NoMonitor]
      ELSE [s2 EXCEPT !.app.paused_due_to_idle = FALSE]

on_settings_saved(s, new_interval, x_ok) ==
  LET s1 == set_interval(s, new_interval)
      s2 == IF s1.tm.state = STATE_STOPPED
            THEN update_status(s1, TRAY_STOPPED) ELSE s1
  IN  update_idle_monitor_state(s2, x_ok)

\* SettingsWindow._on_save_clicked: stores the changed values, then emits
\* settings_saved with the interval shown in the window
on_save_clicked(s, interval, enabled, threshold, x_ok) ==
  IF /\ interval = s.settings.break_interval
     /\ enabled = s.settings.idle_enabled
     /\ threshold = s.settings.idle_threshold
  THEN s
  ELSE on_settings_saved(
         [s EXCEPT !.settings = [break_interval |-> interval,
                                 idle_enabled |-> enabled,
                                 idle_threshold |-> threshold]],
         interval, x_ok)

(***************************************************************************)
(* Construction.                                                           *)
(***************************************************************************)
\* TimerManager.__init__
TimerManager_init ==
  [state |-> STATE_STOPPED, timer_source_id |-> None,
   remaining_seconds |-> 0, configured_interval_seconds |-> 0]

\* MindfulBreakApp.__init__; connected: _connect_signals has run
App_init ==
  [connected |-> FALSE, idle_monitor |-> FALSE,
   idle_monitor_enabled |-> TRUE, idle_threshold_seconds |-> 120,
   paused_due_to_idle |-> FALSE, manual_pause_timer_id |-> None,
   manual_pause_remaining_seconds |-> 0,
   break_overlay_window |-> FALSE,
   pause_dialogs |-> 0, set_time_dialogs |-> 0]

NoSources ==
  [tick |-> 0, manual |-> 0, poll |-> 0, idle |-> 0, old_idle |-> 0]

\* what the model records about a step (events, calls, lastOp, query,
\* sounds, playback) and about the run so far (the other fields)
NoObs ==
  [events |-> <<>>, calls |-> <<>>, args |-> <<>>, lastOp |-> "init",
   query |-> NoQuery, src |-> "none",
   sounds |-> 0, playback |-> "none",
   lastEmitted |-> "none", pauseCalls |-> 0,
   pausedEmits |-> 0, lastPauseBy |-> "none", pausedAt |-> -1,
   sinceStart |-> -1, startN |-> 0, manualD |-> -1, manualFired |-> 0,
   breakUnanswered |-> FALSE]

\* SettingsManager._get_default_settings, with the interval in half seconds
Settings(interval, enabled, threshold) ==
  [break_interval |-> interval, idle_enabled |-> enabled,
   idle_threshold |-> threshold]

Constructed(settings) ==
  [tm |-> TimerManager_init, im |-> NoMonitor, app |-> App_init,
   tray |-> TRAY_STOPPED, glib |-> NoSources, settings |-> settings,
   obs |-> NoObs]

\* do_startup that keeps and starts a monitor whose initialisation failed
do_startup_keeping_failed_monitor(s, x_ok) ==
  LET s1 == set_interval(s, s.settings.break_interval)
      threshold == get_idle_threshold_seconds(s1)
      s2 == [s1 EXCEPT !.app.idle_monitor_enabled = s1.settings.idle_enabled,
                       !.app.idle_threshold_seconds = threshold]
      s3 == IF s2.app.idle_monitor_enabled
            THEN idle_monitor_start(
                   [IdleMonitor_init(s2, threshold, x_ok)
                      EXCEPT !.app.idle_monitor = TRUE])
            ELSE s2
      s4 == update_status(s3, TRAY_STOPPED)
  IN  [s4 EXCEPT !.app.connected = TRUE]

do_startup(s, x_ok) ==
  LET s1 == set_interval(s, s.settings.break_interval)
      threshold == get_idle_threshold_seconds(s1)
      s2 == [s1 EXCEPT !.app.idle_monitor_enabled = s1.settings.idle_enabled,
                       !.app.idle_threshold_seconds = threshold]
      s3 == IF s2.app.idle_monitor_enabled
            THEN LET m == IdleMonitor_init(s2, threshold, x_ok)
                 IN  IF m.im.initialized_successfully
                     THEN idle_monitor_start(
                            [m EXCEPT !.app.idle_monitor = TRUE])
                     ELSE [m EXCEPT !.im = NoMonitor]
            ELSE s2
      s4 == update_status(s3, TRAY_STOPPED)
  IN  [s4 EXCEPT !.app.connected = TRUE]

do_activate(s) ==
  on_start_timer_requested(update_status(s, TRAY_STOPPED))

(***************************************************************************)
(* Steps.  Begin(op) opens the record of a step; Step(n) is the step to    *)
(* the state n and brings the run's record up to date.                     *)
(***************************************************************************)
Begin(op) ==
  [Cur EXCEPT !.obs.events = <<>>, !.obs.calls = <<>>, !.obs.args = <<>>,
              !.obs.lastOp = op, !.obs.query = NoQuery, !.obs.src = "none",
              !.obs.sounds = 0, !.obs.playback = "none"]

Emitted(n, sig) == \E i \in 1..Len(n.obs.events) : n.obs.events[i].sig = sig

Called(n, name) == \E i \in 1..Len(n.obs.calls) : n.obs.calls[i] = name

Count(seq, P(_)) == Cardinality({i \in 1..Len(seq) : P(seq[i])})

Capped(n) == IF n > MaxCount THEN MaxCount ELSE n

IsPauseCall(c) == c = "pause"

IsPausedEvent(e) == e.sig = "timer_paused"

Observe(n) ==
  LET enteredRunning ==
        Emitted(n, "timer_started") \/ Emitted(n, "timer_resumed")
      paused == n.tm.state = STATE_PAUSED
      \* the firings since the last start() are counted for the engine on
      \* its own
      restarted == /\ ~n.app.connected
                   /\ Called(n, "start") /\ Emitted(n, "timer_started")
      counting == /\ n.obs.lastOp = "tick"
                  /\ obs.sinceStart >= 0
      \* a manual pause accepted while the engine ran, and the firings of
      \* _manual_pause_tick since
      accepted == /\ n.obs.lastOp = "pause_dialog_response"
                  /\ Emitted(n, "timer_paused")
      since == IF restarted THEN 0
               ELSE IF counting THEN obs.sinceStart + 1
               ELSE IF Len(n.obs.calls) > 0 THEN -1
               ELSE obs.sinceStart
  IN  [n EXCEPT
         !.obs.pauseCalls =
            IF enteredRunning THEN 0
            ELSE Capped(obs.pauseCalls + Count(n.obs.calls, IsPauseCall)),
         !.obs.pausedEmits =
            IF enteredRunning THEN 0
            ELSE Capped(obs.pausedEmits + Count(n.obs.events, IsPausedEvent)),
         !.obs.lastPauseBy =
            IF ~paused THEN "none"
            ELSE IF Emitted(n, "timer_paused") THEN n.obs.lastOp
            ELSE obs.lastPauseBy,
         !.obs.pausedAt =
            IF ~paused THEN -1
            ELSE IF Emitted(n, "timer_paused") THEN n.tm.remaining_seconds
            ELSE obs.pausedAt,
         !.obs.manualD =
            IF ~paused THEN -1
            ELSE IF accepted THEN n.app.manual_pause_remaining_seconds
            ELSE obs.manualD,
         !.obs.manualFired =
            IF ~paused \/ accepted THEN 0
            ELSE IF n.obs.lastOp = "manual_pause_tick" /\ obs.manualD >= 0
            THEN obs.manualFired + 1
            ELSE obs.manualFired,
         \* a break_started was emitted and no timer_started since
         !.obs.breakUnanswered =
            IF Emitted(n, "timer_started") THEN FALSE
            ELSE IF Emitted(n, "break_started") THEN TRUE
            ELSE obs.breakUnanswered,
         !.obs.sinceStart = since,
         !.obs.startN =
            IF restarted THEN n.tm.remaining_seconds
            ELSE IF since < 0 THEN 0 ELSE obs.startN]

Step(n) ==
  LET m == Observe(n)
  IN  /\ timer_manager' = m.tm
      /\ idle_monitor' = m.im
      /\ app' = m.app
      /\ tray_icon' = m.tray
      /\ glib' = m.glib
      /\ settings_manager' = m.settings
      /\ obs' = m.obs

(***************************************************************************)
(* Inputs.                                                                 *)
(***************************************************************************)
\* `minutes` arguments, in half seconds: negative, zero, below one second,
\* ties and whole seconds
MinutesInputs == -1..(2 * MaxSeconds)

\* dialog.get_duration_seconds()
DurationInputs == 1..MaxDuration

\* the break interval of the settings, in half seconds
IntervalChoices == {2 * (MaxSeconds - 1), 2 * MaxSeconds}

\* the overlay's postpone buttons, in half seconds
PostponeChoices == {2 * (MaxSeconds - 1), 2 * MaxSeconds}

\* the idle threshold of the settings, in seconds
ThresholdChoices == {MIN_IDLE_THRESHOLD, MIN_IDLE_THRESHOLD + 5}

\* the settings the application starts with
DefaultInterval == 2 * MaxSeconds

DefaultThreshold == MIN_IDLE_THRESHOLD

\* milliseconds of inactivity the platform reports, around the threshold
IdleMsInputs ==
  {0, idle_monitor.idle_threshold_ms - 1, idle_monitor.idle_threshold_ms,
   idle_monitor.idle_threshold_ms + 1}

QueryResults ==
  {QueryStatus0, QueryException} \cup {QueryOk(ms) : ms \in IdleMsInputs}

(***************************************************************************)
(* The countdown engine on its own: a TimerManager with no handler         *)
(* connected, driven through its public methods and its timer.             *)
(***************************************************************************)
EngineInit ==
  /\ timer_manager = TimerManager_init
  /\ idle_monitor = NoMonitor
  /\ app = App_init
  /\ tray_icon = TRAY_STOPPED
  /\ glib = NoSources
  /\ settings_manager = Settings(0, FALSE, MIN_IDLE_THRESHOLD)
  /\ obs = NoObs

SetInterval == \E h \in MinutesInputs : Step(set_interval(Begin("set_interval"), h))

Start == Step(start(Begin("start")))

Pause == Step(pause(Begin("pause")))

Resume == Step(resume(Begin("resume")))

Stop == Step(stop(Begin("stop")))

Postpone == \E h \in MinutesInputs : Step(postpone(Begin("postpone"), h))

Tick ==
  /\ glib.tick > 0
  /\ Step(tick(Begin("tick")))

EngineNext ==
  \/ SetInterval
  \/ Start
  \/ Pause
  \/ Resume
  \/ Stop
  \/ Postpone
  \/ Tick

SpecEngine == EngineInit /\ [][EngineNext]_vars

(***************************************************************************)
(* The application.                                                        *)
(***************************************************************************)
Init ==
  \E interval \in {DefaultInterval}, enabled \in BOOLEAN,
     threshold \in {DefaultThreshold}, x_ok \in BOOLEAN :
    LET s == do_activate(do_startup(
               Constructed(Settings(interval, enabled, threshold)), x_ok))
        m == [s EXCEPT !.obs = [NoObs EXCEPT
                                   !.events = s.obs.events,
                                   !.calls = s.obs.calls,
                                   !.args = s.obs.args,
                                   !.lastOp = "do_activate"]]
    IN  /\ timer_manager = m.tm
        /\ idle_monitor = m.im
        /\ app = m.app
        /\ tray_icon = m.tray
        /\ glib = m.glib
        /\ settings_manager = m.settings
        /\ obs = m.obs

StartTimerRequested ==
  /\ dynamic_action(tray_icon) = "start"
  /\ Step(on_start_timer_requested(Begin("start_timer_requested")))

ResumeTimerRequested ==
  /\ dynamic_action(tray_icon) = "resume"
  /\ Step(on_resume_timer_requested(Begin("resume_timer_requested")))

PauseForRequested ==
  /\ pause_for_sensitive(tray_icon)
  /\ app.pause_dialogs < MaxDialogs
  /\ Step(on_pause_for_requested(Begin("pause_for_requested")))

SetTimeRequested ==
  /\ set_time_sensitive(tray_icon)
  /\ app.set_time_dialogs < 1
  /\ Step(on_set_time_requested(Begin("set_time_requested")))

PauseDialogResponse ==
  /\ app.pause_dialogs > 0
  /\ glib.manual < MaxSources
  /\ \E ok \in BOOLEAN, d \in DurationInputs :
       Step(on_pause_dialog_response(Begin("pause_dialog_response"), ok, d))

SetTimeDialogResponse ==
  /\ app.set_time_dialogs > 0
  /\ \E ok \in BOOLEAN, d \in DurationInputs :
       Step(on_set_time_dialog_response(
              Begin("set_time_dialog_response"), ok, d))

PostponeClicked ==
  /\ app.break_overlay_window
  /\ \E h \in PostponeChoices :
       Step(on_postpone_clicked(Begin("postpone_clicked"), h))

SaveClicked ==
  /\ glib.old_idle + glib.idle < MaxSources
  /\ \E interval \in IntervalChoices, enabled \in BOOLEAN,
        threshold \in ThresholdChoices, x_ok \in BOOLEAN :
       /\ Settings(interval, enabled, threshold) # settings_manager
       /\ Step(on_save_clicked(Begin("save_clicked"),
                               interval, enabled, threshold, x_ok))

TimerTick ==
  /\ glib.tick > 0
  /\ Step(tick(Begin("tick")))

ManualPauseTick ==
  \E fired_ref \in BOOLEAN :
    /\ IF fired_ref
       THEN app.manual_pause_timer_id = "live"
       ELSE glib.manual >
              (IF app.manual_pause_timer_id = "live" THEN 1 ELSE 0)
    /\ Step(manual_pause_tick(Begin("manual_pause_tick"), fired_ref))

CheckIdle ==
  \E src \in {"poll", "idle", "old_idle"} :
    /\ glib[src] > 0
    /\ \E result \in QueryResults :
         Step(check_idle(Begin("check_idle"), src, result))

Next ==
  \/ StartTimerRequested
  \/ ResumeTimerRequested
  \/ PauseForRequested
  \/ SetTimeRequested
  \/ PauseDialogResponse
  \/ SetTimeDialogResponse
  \/ PostponeClicked
  \/ TimerTick
  \/ ManualPauseTick
  \/ CheckIdle

Spec == Init /\ [][Next]_vars

\* the application with its settings window
NextWithSettings == Next \/ SaveClicked

SpecSettings == Init /\ [][NextWithSettings]_vars

(***************************************************************************)
(* The idle detector on its own: an IdleMonitor with no handler connected, *)
(* created, started, polled and stopped as in the module's own test.       *)
(***************************************************************************)
\* idle_threshold_seconds given to the constructor
ThresholdInputs == {0, 1, 2}

MonitorInit ==
  /\ timer_manager = TimerManager_init
  /\ idle_monitor = NoMonitor
  /\ app = App_init
  /\ tray_icon = TRAY_STOPPED
  /\ glib = NoSources
  /\ settings_manager = Settings(0, TRUE, 0)
  /\ obs = NoObs

\* monitor = IdleMonitor(idle_threshold_seconds=...), once the previous
\* monitor, if any, was stopped
MonitorCreate ==
  /\ ~idle_monitor.initialized_successfully
  /\ glib.old_idle + glib.idle < MaxSources
  /\ \E th \in ThresholdInputs, x_ok \in BOOLEAN :
       Step(IdleMonitor_init(
              [drop_idle_monitor(Begin("IdleMonitor"))
                 EXCEPT !.app.idle_monitor = TRUE,
                        !.app.idle_threshold_seconds = th],
              th, x_ok))

MonitorStart ==
  /\ app.idle_monitor
  /\ Step(idle_monitor_start(Begin("monitor_start")))

MonitorStop ==
  /\ app.idle_monitor
  /\ Step(idle_monitor_stop(Begin("monitor_stop")))

MonitorCheck ==
  \E src \in {"poll", "idle", "old_idle"} :
    /\ glib[src] > 0
    /\ \E result \in QueryResults :
         Step([check_idle(Begin("check_idle"), src, result)
                 EXCEPT !.obs.src = src,
                        !.obs.query =
                   IF src # "old_idle"
                      /\ idle_monitor.initialized_successfully
                   THEN result ELSE NoQuery])

MonitorNext ==
  \/ MonitorCreate
  \/ MonitorStart
  \/ MonitorStop
  \/ MonitorCheck

SpecMonitor == MonitorInit /\ [][MonitorNext]_vars

(***************************************************************************)
(* The application with its idle detection and its settings window: tray   *)
(* start and resume, the overlay's postpone, the engine's tick, settings   *)
(* saves, and the detector's queries, whose source and answer each step    *)
(* records.  GLib fires the engine's tick for as long as it is armed.      *)
(***************************************************************************)
IdleNext ==
  \/ StartTimerRequested
  \/ ResumeTimerRequested
  \/ PostponeClicked
  \/ TimerTick
  \/ SaveClicked
  \/ MonitorCheck

SpecIdle == Init /\ [][IdleNext]_vars /\ WF_vars(TimerTick)

(***************************************************************************)
(* Properties of the countdown engine (SpecEngine).                        *)
(***************************************************************************)
\* C5: pause() and resume() leave remaining_seconds as it was; while the
\* engine is not Stopped, remaining_seconds changes only in a step of the
\* tick, of start() or of postpone().
C5_RemainingKeptByPauseResume ==
  [][ /\ obs'.lastOp \in {"pause", "resume"}
         => timer_manager'.remaining_seconds = timer_manager.remaining_seconds
      /\ timer_manager'.remaining_seconds # timer_manager.remaining_seconds
         => \/ obs'.lastOp \in {"tick", "start", "postpone"}
            \/ timer_manager'.state = STATE_STOPPED ]_vars

\* a resume() that went back to Running in the middle of a countdown
C5_Witness ==
  /\ obs.lastOp = "resume"
  /\ Emitted(Cur, "timer_resumed")
  /\ timer_manager.state = STATE_RUNNING
  /\ timer_manager.remaining_seconds >= 1
  /\ timer_manager.remaining_seconds
       < timer_manager.configured_interval_seconds

\* C6: after stop() the engine is Stopped, its tick source is cancelled and
\* remaining_seconds is the configured interval; timer_stopped is emitted
\* exactly when the state before the call was not Stopped.
C6_StopEmitsOnChange ==
  [][ obs'.lastOp = "stop"
      => /\ timer_manager'.state = STATE_STOPPED
         /\ timer_manager'.timer_source_id = None
         /\ glib'.tick = 0
         /\ timer_manager'.configured_interval_seconds
              = timer_manager.configured_interval_seconds
         /\ timer_manager'.remaining_seconds
              = timer_manager.configured_interval_seconds
         /\ obs'.events = IF timer_manager.state # STATE_STOPPED
                          THEN <<Event("timer_stopped", NoArg)>>
                          ELSE << >> ]_vars

\* a stop() that ended a cycle
C6_Witness ==
  /\ obs.lastOp = "stop"
  /\ obs.events = <<Event("timer_stopped", NoArg)>>
  /\ timer_manager.state = STATE_STOPPED
  /\ timer_manager.remaining_seconds >= 2

\* a stop() of an engine that was Stopped already: nothing emitted
C6_WitnessAlreadyStopped ==
  /\ obs.lastOp = "stop"
  /\ obs.events = << >>
  /\ timer_manager.remaining_seconds >= 2

\* C8: k firings of the tick after a start() with interval N >= 1 and no
\* call in between: start() itself emits timer_started, timer_tick(N); for
\* 0 < k < N the engine is Running with N - k left and the firing emitted
\* timer_tick(N - k); the N-th firing enters BreakActive with 0 left and
\* emits break_started; no timer_tick carries 0.
C8_CountdownAfterStart ==
  /\ \A i \in 1..Len(obs.events) :
       obs.events[i].sig = "timer_tick" => obs.events[i].arg >= 1
  /\ obs.sinceStart >= 0
     => LET N == obs.startN
            k == obs.sinceStart
        IN  /\ N >= 1
            /\ k <= N
            /\ k = 0 => obs.events = <<Event("timer_started", NoArg),
                                       Event("timer_tick", N)>>
            /\ k < N => /\ timer_manager.state = STATE_RUNNING
                        /\ timer_manager.remaining_seconds = N - k
            /\ (0 < k /\ k < N)
               => obs.events = <<Event("timer_tick", N - k)>>
            /\ k = N => /\ timer_manager.state = STATE_BREAK_ACTIVE
                        /\ timer_manager.remaining_seconds = 0
                        /\ obs.events = <<Event("break_started", NoArg)>>

\* the N-th firing after a start() with N >= 2
C8_Witness ==
  /\ obs.startN >= 2
  /\ obs.sinceStart = obs.startN
  /\ obs.lastOp = "tick"
  /\ timer_manager.state = STATE_BREAK_ACTIVE

\* C9: resume() of a Paused engine with r > 0 left makes it Running with r
\* left, arms the tick and emits timer_resumed then timer_tick(r); the
\* first firing after it leaves r - 1.
C9_ResumeContinuesCountdown ==
  [][ /\ ( /\ obs'.lastOp = "resume"
           /\ timer_manager.state = STATE_PAUSED
           /\ timer_manager.remaining_seconds > 0 )
         => /\ timer_manager'.state = STATE_RUNNING
            /\ timer_manager'.remaining_seconds
                 = timer_manager.remaining_seconds
            /\ timer_manager'.timer_source_id = "live"
            /\ glib'.tick = 1
            /\ obs'.events =
                 <<Event("timer_resumed", NoArg),
                   Event("timer_tick", timer_manager.remaining_seconds)>>
      /\ ( /\ obs.lastOp = "resume"
           /\ Emitted(Cur, "timer_resumed")
           /\ obs'.lastOp = "tick" )
         => /\ timer_manager'.remaining_seconds
                 = timer_manager.remaining_seconds - 1
            /\ timer_manager'.remaining_seconds > 0
               => obs'.events =
                    <<Event("timer_tick",
                            timer_manager.remaining_seconds - 1)>> ]_vars

\* a resume() with two seconds or more left
C9_Witness ==
  /\ obs.lastOp = "resume"
  /\ timer_manager.state = STATE_RUNNING
  /\ timer_manager.remaining_seconds >= 2
  /\ obs.events =
       <<Event("timer_resumed", NoArg),
         Event("timer_tick", timer_manager.remaining_seconds)>>

(***************************************************************************)
(* Properties of the idle detector (SpecMonitor).                          *)
(***************************************************************************)
\* C7: a check that gets an idle time from the platform leaves the monitor
\* idle exactly when that time is at least the threshold (seconds * 1000,
\* the threshold being at least 1 second); user_idle is emitted only when
\* the monitor goes from not idle to idle and user_active only when it
\* goes from idle to not idle, so the two alternate, user_idle first; a
\* failed query emits nothing and changes nothing.
C7_IdleEventsEdgeTriggered ==
  [][ ( /\ obs'.lastOp = "check_idle"
        /\ obs'.query.kind # "none" )
      => LET q == obs'.query
             seconds == IF app.idle_threshold_seconds < 1
                        THEN 1 ELSE app.idle_threshold_seconds
             was == idle_monitor.is_idle
             now == idle_monitor'.is_idle
         IN  /\ idle_monitor.idle_threshold_ms = seconds * 1000
             /\ q.kind = "ok" => (now <=> q.idle >= seconds * 1000)
             /\ q.kind # "ok" => (now <=> was)
             /\ obs'.events =
                  IF now /\ ~was THEN <<Event("user_idle", NoArg)>>
                  ELSE IF was /\ ~now THEN <<Event("user_active", NoArg)>>
                  ELSE << >>
             /\ (now /\ ~was) => obs.lastEmitted \in {"none", "user_active"}
             /\ (was /\ ~now) => obs.lastEmitted = "user_idle" ]_vars

\* user_active emitted by a check just below the threshold, after user_idle
C7_Witness ==
  /\ obs.lastOp = "check_idle"
  /\ obs.query = QueryOk(idle_monitor.idle_threshold_ms - 1)
  /\ obs.events = <<Event("user_active", NoArg)>>
  /\ ~idle_monitor.is_idle

(***************************************************************************)
(* Properties of the application (Spec).                                   *)
(***************************************************************************)
ManualPauseActive == app.manual_pause_timer_id # None

EmittedNext(sig) == Emitted([obs |-> obs'], sig)

\* C1: whichever of user_idle and the confirmed pause dialog comes first
\* while the engine runs, a Paused engine was paused once: since it was
\* last Running, pause() was called once and timer_paused emitted once.
C1_PausedOnce ==
  /\ obs.pauseCalls <= 1
  /\ obs.pausedEmits <= 1
  /\ timer_manager.state = STATE_PAUSED
     => obs.pauseCalls = 1 /\ obs.pausedEmits = 1

\* the dialog was confirmed after user_idle had paused the engine
C1_Witness ==
  /\ obs.lastOp = "pause_dialog_response"
  /\ ManualPauseActive
  /\ obs.lastPauseBy = "check_idle"
  /\ timer_manager.state = STATE_PAUSED
  /\ obs.pauseCalls = 1

\* C2: while a manual pause is active a check of the idle monitor leaves
\* the engine's state and remaining_seconds alone and the idle cause
\* unset; a Paused engine under a manual pause leaves Paused only when the
\* manual countdown reaches zero or by a resume, start or postpone request.
C2_ManualPauseShieldsIdle ==
  [][ /\ (ManualPauseActive /\ obs'.lastOp = "check_idle")
         => /\ timer_manager'.state = timer_manager.state
            /\ timer_manager'.remaining_seconds
                 = timer_manager.remaining_seconds
            /\ ~app'.paused_due_to_idle
      /\ ( /\ ManualPauseActive
           /\ timer_manager.state = STATE_PAUSED
           /\ timer_manager'.state # STATE_PAUSED )
         => \/ /\ obs'.lastOp = "manual_pause_tick"
               /\ app.manual_pause_remaining_seconds = 1
            \/ obs'.lastOp \in {"resume_timer_requested",
                                "start_timer_requested",
                                "set_time_dialog_response",
                                "postpone_clicked"} ]_vars

\* user_active arrived during a manual pause and the engine stayed Paused
C2_Witness ==
  /\ obs.lastOp = "check_idle"
  /\ obs.events = <<Event("user_active", NoArg)>>
  /\ ManualPauseActive
  /\ timer_manager.state = STATE_PAUSED

\* C3: while a manual pause is active, a pause request or a confirmed
\* pause dialog leaves the countdown's remaining seconds and its timer as
\* they were and starts no second countdown.
C3_SecondPauseRejected ==
  [][ ( /\ ManualPauseActive
        /\ obs'.lastOp \in {"pause_for_requested", "pause_dialog_response"} )
      => /\ app'.manual_pause_remaining_seconds
              = app.manual_pause_remaining_seconds
         /\ app'.manual_pause_timer_id = app.manual_pause_timer_id
         /\ glib'.manual = glib.manual ]_vars

\* C4: a Running engine has no pause cause: no manual pause countdown is
\* armed and the idle flag is unset.
C4_RunningHasNoPauseCause ==
  timer_manager.state = STATE_RUNNING
  => /\ app.manual_pause_timer_id = None
     /\ app.manual_pause_remaining_seconds = 0
     /\ ~app.paused_due_to_idle

\* the manual countdown ran out and the engine went back to Running
C4_Witness ==
  /\ obs.lastOp = "manual_pause_tick"
  /\ Emitted(Cur, "timer_resumed")
  /\ timer_manager.state = STATE_RUNNING

\* C10: user_idle pauses the engine and sets the idle cause when the
\* engine is Running and no manual pause is active, and changes nothing
\* otherwise; user_active while the idle cause is set clears it and
\* resumes the engine with the remaining_seconds it was paused at.
C10_IdlePausesActiveResumes ==
  [][ /\ EmittedNext("user_idle")
         => IF timer_manager.state = STATE_RUNNING /\ ~ManualPauseActive
            THEN /\ timer_manager'.state = STATE_PAUSED
                 /\ app'.paused_due_to_idle
                 /\ EmittedNext("timer_paused")
                 /\ timer_manager'.remaining_seconds
                      = timer_manager.remaining_seconds
            ELSE /\ timer_manager' = timer_manager
                 /\ app' = app
      /\ (EmittedNext("user_active") /\ app.paused_due_to_idle)
         => /\ ~app'.paused_due_to_idle
            /\ timer_manager'.state = STATE_RUNNING
            /\ obs.pausedAt >= 1
            /\ timer_manager'.remaining_seconds = obs.pausedAt
            /\ EmittedNext("timer_resumed") ]_vars

\* user_active resumed a countdown that user_idle had paused midway
C10_Witness ==
  /\ obs.lastOp = "check_idle"
  /\ obs.events =
       <<Event("user_active", NoArg), Event("timer_resumed", NoArg),
         Event("timer_tick", timer_manager.remaining_seconds)>>
  /\ timer_manager.state = STATE_RUNNING
  /\ timer_manager.remaining_seconds
       < timer_manager.configured_interval_seconds

\* C11: a manual pause of D seconds accepted while the engine ran with R
\* seconds left: unless a resume, start or postpone request comes first,
\* the engine stays Paused through the first D - 1 firings of the manual
\* countdown and the D-th firing resumes it with R seconds left.
C11_ManualPauseLastsD ==
  [][ /\ (obs'.manualD >= 1 /\ timer_manager'.state = STATE_PAUSED)
         => obs'.manualFired < obs'.manualD
      /\ ( /\ obs.manualD >= 1
           /\ timer_manager.state = STATE_PAUSED
           /\ timer_manager'.state # STATE_PAUSED
           /\ obs'.lastOp = "manual_pause_tick" )
         => /\ obs.manualFired + 1 = obs.manualD
            /\ timer_manager'.state = STATE_RUNNING
            /\ timer_manager'.remaining_seconds = obs.pausedAt ]_vars

CalledNext(name) == Called([obs |-> obs'], name)

\* the `minutes` argument of the step's last call that takes one, in half
\* seconds
LastMinutesNext == obs'.args[Len(obs'.args)]

\* seconds is h half seconds as whole seconds: the nearest whole number,
\* and 1 when that is below 1
WholeSeconds(h, seconds) ==
  /\ seconds >= 1
  /\ h < 1 => seconds = 1
  /\ h >= 1 => (2 * seconds - h) \in -1..1

\* C12: postpone(minutes) from any state leaves the engine Running with
\* the postpone duration in whole seconds (at least 1) left and exactly one
\* tick source armed, emits timer_started then timer_tick(remaining), and
\* leaves no pause cause: no manual countdown armed, idle flag unset.
C12_PostponeRestartsCountdown ==
  [][ CalledNext("postpone")
      => /\ timer_manager'.state = STATE_RUNNING
         /\ WholeSeconds(LastMinutesNext, timer_manager'.remaining_seconds)
         /\ timer_manager'.timer_source_id = "live"
         /\ glib'.tick = 1
         /\ obs'.events =
              <<Event("timer_started", NoArg),
                Event("timer_tick", timer_manager'.remaining_seconds)>>
         /\ app'.manual_pause_timer_id = None
         /\ app'.manual_pause_remaining_seconds = 0
         /\ ~app'.paused_due_to_idle ]_vars

\* a postpone button of the break overlay restarted the countdown
C12_Witness ==
  /\ obs.lastOp = "postpone_clicked"
  /\ Called(Cur, "postpone")
  /\ timer_manager.state = STATE_RUNNING
  /\ timer_manager.remaining_seconds >= 2
  /\ glib.tick = 1

\* C13: a firing of the manual countdown that finds or leaves 0 seconds
\* clears the manual cause; it calls resume() when the engine is Paused,
\* and otherwise makes no call and leaves the engine as it was.
C13_ManualExpiryResumesOnlyPaused ==
  [][ ( /\ obs'.lastOp = "manual_pause_tick"
        /\ app.manual_pause_remaining_seconds <= 1 )
      => /\ app'.manual_pause_timer_id = None
         /\ app'.manual_pause_remaining_seconds = 0
         /\ IF timer_manager.state = STATE_PAUSED
            THEN /\ obs'.calls = <<"resume">>
                 /\ timer_manager'.state = STATE_RUNNING
                 /\ timer_manager'.remaining_seconds
                      = timer_manager.remaining_seconds
            ELSE /\ obs'.calls = << >>
                 /\ obs'.events = << >>
                 /\ timer_manager' = timer_manager ]_vars

\* the countdown's callback ran with nothing left while the engine was in
\* its break
C13_Witness ==
  /\ obs.lastOp = "manual_pause_tick"
  /\ timer_manager.state = STATE_BREAK_ACTIVE
  /\ app.manual_pause_timer_id = None
  /\ obs.calls = << >>

\* C14: at most one pause cause at a time: the idle flag is not set while
\* a manual pause countdown is armed.
C14_OneCauseAtATime ==
  ~(app.paused_due_to_idle /\ app.manual_pause_timer_id # None)

\* user_idle arrived under a manual pause and the idle flag stayed unset
C14_Witness ==
  /\ obs.lastOp = "check_idle"
  /\ obs.events = <<Event("user_idle", NoArg)>>
  /\ app.manual_pause_timer_id # None
  /\ ~app.paused_due_to_idle

\* C15: in every state of the engine, from construction on,
\* remaining_seconds is 0 exactly when the state is BreakActive.
C15_ZeroOnlyInBreak ==
  timer_manager.remaining_seconds = 0
  <=> timer_manager.state = STATE_BREAK_ACTIVE

\* C16: start() with a configured interval of at least 1 second, from any
\* state, leaves the engine Running with the configured interval left and
\* exactly one tick source armed, and emits timer_started then
\* timer_tick(configured interval).
C16_StartRestartsCountdown ==
  [][ ( /\ obs'.lastOp = "start"
        /\ timer_manager.configured_interval_seconds >= 1 )
      => /\ timer_manager'.state = STATE_RUNNING
         /\ timer_manager'.configured_interval_seconds
              = timer_manager.configured_interval_seconds
         /\ timer_manager'.remaining_seconds
              = timer_manager.configured_interval_seconds
         /\ timer_manager'.timer_source_id = "live"
         /\ glib'.tick = 1
         /\ obs'.events =
              <<Event("timer_started", NoArg),
                Event("timer_tick",
                      timer_manager.configured_interval_seconds)>> ]_vars

\* a start() that began a countdown of 2 seconds or more
C16_Witness ==
  /\ obs.lastOp = "start"
  /\ obs.sinceStart = 0
  /\ timer_manager.state = STATE_RUNNING
  /\ timer_manager.remaining_seconds >= 2
  /\ glib.tick = 1

\* C17: start() with a configured interval of 0 or less does nothing: the
\* state, remaining_seconds and the armed tick source are as before and
\* nothing is emitted.
C17_StartWithoutIntervalIsNoOp ==
  [][ ( /\ obs'.lastOp = "start"
        /\ timer_manager.configured_interval_seconds <= 0 )
      => /\ timer_manager' = timer_manager
         /\ glib'.tick = glib.tick
         /\ obs'.events = << >> ]_vars

\* C18: pause() in a state other than Running and resume() in a state
\* other than Paused do nothing: the state, remaining_seconds and the tick
\* source are as before and nothing is emitted.
C18_InvalidTransitionsAreNoOps ==
  [][ ( \/ /\ obs'.lastOp = "pause"
           /\ timer_manager.state # STATE_RUNNING
        \/ /\ obs'.lastOp = "resume"
           /\ timer_manager.state # STATE_PAUSED )
      => /\ timer_manager' = timer_manager
         /\ glib'.tick = glib.tick
         /\ obs'.events = << >> ]_vars

\* pause() was called during the break
C18_Witness ==
  /\ obs.lastOp = "pause"
  /\ timer_manager.state = STATE_BREAK_ACTIVE
  /\ obs.events = << >>

\* C19: set_interval sets the configured interval to the whole seconds of
\* its argument (at least 1) and emits nothing; in Stopped it also sets
\* remaining_seconds to that value, in every other state it leaves the
\* state, remaining_seconds and the tick source alone.
C19_SetIntervalKeepsCycle ==
  [][ obs'.lastOp = "set_interval"
      => /\ WholeSeconds(LastMinutesNext,
                         timer_manager'.configured_interval_seconds)
         /\ timer_manager'.state = timer_manager.state
         /\ timer_manager'.timer_source_id = timer_manager.timer_source_id
         /\ glib'.tick = glib.tick
         /\ obs'.events = << >>
         /\ timer_manager'.remaining_seconds =
              IF timer_manager.state = STATE_STOPPED
              THEN timer_manager'.configured_interval_seconds
              ELSE timer_manager.remaining_seconds ]_vars

\* set_interval during a countdown: the interval now differs from what is
\* left of the running cycle
C19_Witness ==
  /\ obs.lastOp = "set_interval"
  /\ timer_manager.state = STATE_RUNNING
  /\ timer_manager.configured_interval_seconds
       > timer_manager.remaining_seconds
  /\ glib.tick = 1

\* C20: the query that start() schedules at once runs one time: when the
\* monitor's immediate callback has run it is no longer scheduled.
C20_ImmediateQueryRunsOnce ==
  [][ obs'.src = "idle" => glib'.idle = glib.idle - 1 ]_vars

(***************************************************************************)
(* Failures and shutdown of the idle detector (SpecMonitor, Spec).         *)
(***************************************************************************)
\* C21: a query that fails, by an error status or by an exception, leaves
\* the detector as it was: is_idle and the whole monitor are unchanged,
\* neither user_idle nor user_active is emitted, and the recurring poll is
\* still scheduled, so that the next poll queries again.
C21_FailedQueryKeepsState ==
  [][ obs'.query.kind \in {"status0", "exception"}
      => /\ idle_monitor' = idle_monitor
         /\ obs'.events = << >>
         /\ glib'.poll = glib.poll
         /\ glib'.poll = 1
         /\ idle_monitor'.timer_source_id # None ]_vars

\* the recurring poll met an exception while the user was taken for idle
C21_Witness ==
  /\ obs.lastOp = "check_idle"
  /\ obs.src = "poll"
  /\ obs.query = QueryException
  /\ idle_monitor.is_idle
  /\ glib.poll = 1

\* idle monitoring is enabled in the settings and the detector could not be
\* initialised at startup
InitFailed ==
  /\ app.idle_monitor_enabled
  /\ ~idle_monitor.initialized_successfully

\* C22: a detector that failed to initialise stays unavailable: the
\* application holds no monitor, no query is scheduled at any time, neither
\* user_idle nor user_active is ever emitted, no idle check runs, and the
\* engine is never paused with the cause Idle (neither the idle flag nor
\* the tray's idle status is set, and no pause comes from an idle check).
C22_FailedDetectorIsAbsent ==
  InitFailed
  => /\ ~app.idle_monitor
     /\ idle_monitor = NoMonitor
     /\ glib.poll = 0 /\ glib.idle = 0 /\ glib.old_idle = 0
     /\ obs.lastOp # "check_idle"
     /\ obs.lastEmitted = "none"
     /\ ~Emitted(Cur, "user_idle") /\ ~Emitted(Cur, "user_active")
     /\ ~app.paused_due_to_idle
     /\ tray_icon # TRAY_IDLE
     /\ obs.lastPauseBy # "check_idle"

\* with the detector failed, a manual pause ran out and resumed the engine
C22_Witness ==
  /\ InitFailed
  /\ obs.lastOp = "manual_pause_tick"
  /\ Emitted(Cur, "timer_resumed")
  /\ timer_manager.state = STATE_RUNNING

\* C23: after stop() no recurring poll is scheduled and the detector emits
\* nothing more: a callback scheduled before the stop that still fires makes
\* no query, emits no event, changes nothing in the monitor and is not
\* scheduled again; a second stop() changes nothing.
C23_StopSilencesDetector ==
  [][ /\ obs'.lastOp = "monitor_stop"
         => /\ glib'.poll = 0
            /\ idle_monitor'.timer_source_id = None
            /\ ~idle_monitor'.initialized_successfully
            /\ idle_monitor'.is_idle = idle_monitor.is_idle
            /\ obs'.events = << >>
      /\ obs'.lastOp = "monitor_stop" /\ ~idle_monitor.initialized_successfully
         => /\ idle_monitor' = idle_monitor
            /\ glib' = glib
      /\ obs'.lastOp = "check_idle"
         /\ (~idle_monitor.initialized_successfully \/ obs'.src = "old_idle")
         => /\ obs'.query = NoQuery
            /\ obs'.events = << >>
            /\ idle_monitor' = idle_monitor
            /\ glib'[obs'.src] = glib[obs'.src] - 1
            /\ glib'.poll = glib.poll ]_vars

\* the immediate callback of a monitor that was stopped while it took the
\* user for idle fires after the stop
C23_Witness ==
  /\ obs.lastOp = "check_idle"
  /\ obs.src = "idle"
  /\ app.idle_monitor
  /\ ~idle_monitor.initialized_successfully
  /\ idle_monitor.is_idle
  /\ glib.poll = 0

(***************************************************************************)
(* The break: sound and overlay (Spec).                                    *)
(***************************************************************************)
\* C24: the break handler does not wait for the sound: when the step that
\* emitted break_started is over, and the main loop can run the next tick,
\* poll or overlay event, the playback it requested is still in progress.
C24_BreakHandlerDoesNotAwaitSound ==
  Emitted(Cur, "break_started") => obs.playback = "playing"

IsBreakStarted(e) == e.sig = "break_started"

\* C25: the sound player is asked to play once for each break_started and
\* at no other time: in every step the number of play requests equals the
\* number of break_started emissions of that step.
C25_OneSoundPerBreak ==
  obs.sounds = Count(obs.events, IsBreakStarted)

\* the tick that ended the countdown asked for the sound once
C25_Witness ==
  /\ obs.lastOp = "tick"
  /\ Count(obs.events, IsBreakStarted) = 1
  /\ obs.sounds = 1
  /\ timer_manager.state = STATE_BREAK_ACTIVE

\* C26: an overlay is shown only while the engine is in BreakActive: after
\* a postpone from the overlay or a new start from the tray has taken the
\* engine from BreakActive to Running, no overlay is shown any more.
C26_OverlayOnlyInBreak ==
  app.break_overlay_window => timer_manager.state = STATE_BREAK_ACTIVE

(***************************************************************************)
(* Invariants of the countdown engine (SpecEngine).                        *)
(***************************************************************************)
\* C27: in BreakActive the engine is quiescent: no tick source is armed and
\* none is referenced, and a step that starts in BreakActive emits no
\* break_started, and a timer_tick only after the timer_started of a
\* start() or postpone(); the engine leaves BreakActive only by a
\* start() or postpone() that emits timer_started, or by stop(); and a
\* break_started is emitted only when a timer_started came after the
\* previous one, one at a time.
C27_BreakIsQuiescent ==
  [][ /\ timer_manager'.state = STATE_BREAK_ACTIVE
         => /\ glib'.tick = 0
            /\ timer_manager'.timer_source_id = None
      /\ timer_manager.state = STATE_BREAK_ACTIVE
         => /\ ~EmittedNext("break_started")
            /\ EmittedNext("timer_tick")
               => obs'.events[1].sig = "timer_started"
            /\ timer_manager'.state # STATE_BREAK_ACTIVE
               => \/ /\ obs'.lastOp \in {"start", "postpone"}
                     /\ EmittedNext("timer_started")
                  \/ /\ obs'.lastOp = "stop"
                     /\ timer_manager'.state = STATE_STOPPED
      /\ EmittedNext("break_started")
         => /\ ~obs.breakUnanswered
            /\ Count(obs'.events, IsBreakStarted) = 1 ]_vars

\* resume() was called during the break and nothing happened
C27_Witness ==
  /\ obs.lastOp = "resume"
  /\ obs.events = << >>
  /\ timer_manager.state = STATE_BREAK_ACTIVE
  /\ obs.breakUnanswered
  /\ glib.tick = 0

\* C28: while the engine is Running or Paused at least one second remains,
\* so resume() never takes its branch from Paused to BreakActive: no
\* resume() emits break_started.
C28_SecondsLeftWhileCounting ==
  /\ timer_manager.state \in {STATE_RUNNING, STATE_PAUSED}
     => timer_manager.remaining_seconds >= 1
  /\ ~(Called(Cur, "resume") /\ Emitted(Cur, "break_started"))

\* resume() with the last second left goes on counting
C28_Witness ==
  /\ obs.lastOp = "resume"
  /\ Emitted(Cur, "timer_resumed")
  /\ timer_manager.state = STATE_RUNNING
  /\ timer_manager.remaining_seconds = 1

\* C29: the configured interval is a whole number of seconds, at least 1,
\* in every state of the engine from its construction on.
C29_IntervalAtLeastOne ==
  /\ timer_manager.configured_interval_seconds \in Nat
  /\ timer_manager.configured_interval_seconds >= 1

\* the duration stored for h half seconds: 1 when the conversion to whole
\* seconds gives less than 1, the converted value otherwise
Clamped(h) == IF round_seconds(h) < 1 THEN 1 ELSE round_seconds(h)

\* C30: durations are clamped, never rejected: set_interval stores, and
\* postpone counts down from, exactly 1 second when the argument converts
\* to less than one whole second (negative, zero, half a second), and the
\* converted whole seconds otherwise; the stored value is at least 1.
C30_DurationsAreClamped ==
  [][ /\ obs'.lastOp = "set_interval"
         => /\ timer_manager'.configured_interval_seconds
                 = Clamped(LastMinutesNext)
            /\ timer_manager'.configured_interval_seconds >= 1
      /\ obs'.lastOp = "postpone"
         => /\ timer_manager'.remaining_seconds = Clamped(LastMinutesNext)
            /\ timer_manager'.remaining_seconds >= 1
            /\ timer_manager'.state = STATE_RUNNING ]_vars

\* postpone of half a second, which converts to 0 whole seconds, counts
\* down from 1
C30_Witness ==
  /\ obs.lastOp = "postpone"
  /\ obs.args = <<1>>
  /\ round_seconds(1) = 0
  /\ timer_manager.remaining_seconds = 1
  /\ timer_manager.state = STATE_RUNNING

(***************************************************************************)
(* Timers and their handles (SpecMonitor, SpecEngine, Spec).               *)
(***************************************************************************)
\* C31: start() on a detector that is already polling does nothing: the
\* monitor and every scheduled source stay as they were (no second
\* recurring poll, no further immediate query), and a detector never has
\* more than one recurring poll.
C31_StartWhileRunningIsNoOp ==
  [][ /\ obs'.lastOp = "monitor_start"
         /\ idle_monitor.timer_source_id # None
         => /\ idle_monitor' = idle_monitor
            /\ glib' = glib
            /\ obs'.events = << >>
      /\ glib'.poll <= 1 ]_vars

\* start() was called on a detector that had already found the user idle,
\* so it was polling
C31_Witness ==
  /\ obs.lastOp = "monitor_start"
  /\ idle_monitor.timer_source_id # None
  /\ idle_monitor.is_idle
  /\ glib.poll = 1

\* C32: a stored timer handle names a timer that is scheduled: while the
\* engine's, the idle monitor's or the manual pause's handle is set, a
\* source of that kind is scheduled (exactly one tick, exactly one poll);
\* a manual-pause callback that ends its source leaves no handle stored;
\* and no cancellation removes a source that is not there (no count of
\* scheduled sources goes below zero).
C32_HandlesNameScheduledTimers ==
  [][ /\ timer_manager'.timer_source_id # None => glib'.tick = 1
      /\ idle_monitor'.timer_source_id # None => glib'.poll = 1
      /\ app'.manual_pause_timer_id # None => glib'.manual >= 1
      /\ glib'.tick \in {0, 1} /\ glib'.poll \in {0, 1}
      /\ glib'.manual >= 0 /\ glib'.idle >= 0 /\ glib'.old_idle >= 0
      /\ obs'.lastOp = "manual_pause_tick" /\ glib'.manual < glib.manual
         => app'.manual_pause_timer_id = None ]_vars

\* the manual pause's countdown ended itself: its handle is cleared, its
\* source is gone, and the engine counts again with its tick armed
C32_Witness ==
  /\ obs.lastOp = "manual_pause_tick"
  /\ app.manual_pause_timer_id = None
  /\ glib.manual = 0
  /\ timer_manager.timer_source_id # None
  /\ glib.tick = 1

\* C33: exactly one tick source is armed while the engine is Running and
\* none while it is Stopped, Paused or BreakActive.
C33_TickArmedIffRunning ==
  glib.tick = IF timer_manager.state = STATE_RUNNING THEN 1 ELSE 0

\* C34: at most one manual-pause countdown source is scheduled, and it is
\* the one whose id is stored: with the stored id cleared no manual
\* countdown callback is pending.
C34_OneManualCountdown ==
  glib.manual = IF app.manual_pause_timer_id # None THEN 1 ELSE 0

(***************************************************************************)
(* Causes of a pause (SpecIdle, Spec).                                     *)
(***************************************************************************)
\* C35: a Paused engine has a recorded cause: the idle flag is set or a
\* manual-pause countdown is armed, also after a settings save.
C35_PausedHasCause ==
  timer_manager.state = STATE_PAUSED
  => \/ app.paused_due_to_idle
     \/ app.manual_pause_timer_id # None

\* idle monitoring is enabled and the application holds a detector
IdleMonitoringOn ==
  /\ app.idle_monitor_enabled
  /\ app.idle_monitor

\* the step was a query that did not find the user active: it failed, or
\* it reported an idle time at or above the threshold
FoundNotActive ==
  \/ obs.query.kind \in {"status0", "exception"}
  \/ /\ obs.query.kind = "ok"
     /\ obs.query.idle >= idle_monitor.idle_threshold_ms

\* the step is a firing of the detector's recurring poll
PollFired ==
  /\ obs'.lastOp = "check_idle"
  /\ obs'.src = "poll"

\* C36: an engine paused by idle detection resumes: if the recurring poll
\* keeps firing and, from some point on, every query finds the user active,
\* idle monitoring stays on and the settings are not saved again, then the
\* engine does not stay Paused with the idle flag set: eventually it has
\* left that state for good.  A settings save that replaced the detector
\* after the pause does not change this.
C36_IdlePauseEndsWhenActive ==
  (/\ []<><<PollFired>>_vars
   /\ <>[]~FoundNotActive
   /\ <>[]IdleMonitoringOn
   /\ <>[](obs.lastOp # "save_clicked"))
  => <>[]~(timer_manager.state = STATE_PAUSED /\ app.paused_due_to_idle)

\* C37: while a manual-pause countdown is armed the engine is Paused; no
\* manual pause is armed in BreakActive, Stopped or Running.
C37_ManualPauseMeansPaused ==
  app.manual_pause_timer_id # None => timer_manager.state = STATE_PAUSED

\* C38: while the idle flag is set the engine is Paused: the flag is never
\* set in Running, Stopped or BreakActive.
C38_IdleFlagMeansPaused ==
  app.paused_due_to_idle => timer_manager.state = STATE_PAUSED

\* a query found the user active again and the engine resumed: the flag
\* went with the pause
C38_Witness ==
  /\ obs.lastOp = "check_idle"
  /\ Emitted(Cur, "user_active")
  /\ Emitted(Cur, "timer_resumed")
  /\ timer_manager.state = STATE_RUNNING
  /\ ~app.paused_due_to_idle

(***************************************************************************)
(* Termination of a manual pause (Spec)                                    *)
(***************************************************************************)

ManualCause == app.manual_pause_timer_id # None

ManualFires == obs'.lastOp = "manual_pause_tick"

\* a confirmed pause dialog starts the countdown at its duration, at least
\* 1 second, and the counter is never negative
ManualCounterStartsAtD ==
  /\ app'.manual_pause_remaining_seconds >= 0
  /\ (obs'.lastOp = "pause_dialog_response" /\ glib'.manual > glib.manual)
     => /\ app'.manual_pause_timer_id # None
        /\ app'.manual_pause_remaining_seconds \in 1..MaxDuration

\* every firing during a manual pause takes one second off the counter, and
\* the cause is cleared no later than the firing that reaches 0
ManualFiringCountsDown ==
  (ManualFires /\ ManualCause)
  => /\ app.manual_pause_remaining_seconds >= 1
     /\ app'.manual_pause_remaining_seconds
          = app.manual_pause_remaining_seconds - 1
     /\ app'.manual_pause_timer_id # None
          => app'.manual_pause_remaining_seconds >= 1

\* the countdown callback fires only during a manual pause
ManualFiresOnlyWithCause == ManualFires => ManualCause

\* C39: a manual pause of D >= 1 seconds ends within D firings of its
\* countdown: the counter starts at D, is never negative, every firing
\* takes 1 off and the cause is cleared when it reaches 0 at the latest;
\* once the cause is cleared the countdown callback does not fire again.
C39_ManualPauseTerminates ==
  [][ /\ ManualCounterStartsAtD
      /\ ManualFiringCountsDown
      /\ ManualFiresOnlyWithCause ]_vars

C39_CounterPart == [][ManualCounterStartsAtD /\ ManualFiringCountsDown]_vars

====
